---- MODULE Spec2Model ----
(***************************************************************************)
(* RealtimeClient (packages/core/realtime-js): the connection and channel  *)
(* session orchestrator.  Every action is one task of the JavaScript event *)
(* loop: the synchronous code of a call or timer callback together with    *)
(* the promise reactions (microtasks) it makes runnable.                   *)
(***************************************************************************)
EXTENDS Integers, Sequences, FiniteSets

\* ------------------------------------------------------------------ bounds
\* Stand-in for 2^53, the first number n for which n + 1 === n.
MaxSafeRef == 2
\* setAuth() calls that may await the token provider at the same time.
MaxOps == 2
\* Pending timeouts of one kind (settle delay, heartbeat-timeout fallback).
MaxTimers == 1
\* RealtimeChannel objects constructed in one run.
MaxChannels == 2
\* Saturation of the history counters.
MaxCount == 2
MaxEvents == 3
MaxTries == 6

\* --------------------------------------------------------------- constants
NULL == "NULL"
Tokens == {"t1", "t2"}
Topics == {"a", "b"}
Events == {"broadcast"}
Queries == {"isConnected", "isConnecting", "isDisconnecting", "connectionState",
            "endpointURL"}
DefaultParams == "{config: {}}"
ChannelParams == {DefaultParams, "{config: {private: true}}"}
Keys == {"u1", "u2"}
Metas == {<<>>, <<"m1">>}
ApiKeys == {NULL, "", "k1"}
ApiKeyRequired == "API key is required to connect to Realtime"
WorkerUnsupported == "Web Worker is not supported"
RECONNECT_INTERVALS == <<1000, 2000, 5000, 10000>>
DEFAULT_RECONNECT_FALLBACK == 10000
WS_CLOSE_NORMAL == 1000
\* An argument left out of a call (undefined).
NoCode == 0
NoReason == "undefined"
\* What the application may pass to disconnect(code, reason).
CloseArgs == {<<NoCode, NoReason>>, <<WS_CLOSE_NORMAL, "bye">>, <<4000, NoReason>>}
\* RealtimeRemoveChannelResponse
Statuses == {"ok", "timed out", "error"}
NoRef == <<>>
\* this._authPromise = null
NoPromise == 0
Digit == <<"0", "1", "2", "3", "4", "5", "6", "7", "8", "9">>

VARIABLES
  conn,                 \* socket.connectionState(): closed, connecting, open, closing
  channels,             \* this.channels, in registration order
  nextId,               \* identity of the next RealtimeChannel constructed
  accessToken,          \* whether options.accessToken (the token provider) is set
  accessTokenValue,     \* this.accessTokenValue
  pendingHeartbeatRef,  \* this.pendingHeartbeatRef (NoRef: null)
  ref,                  \* this.ref
  authPromise,          \* this._authPromise: NoPromise or the operation it refers to
  wasManualDisconnect,  \* this._wasManualDisconnect
  ops,                  \* _performAuth calls awaiting this.accessToken()
  waiters,              \* operations whose promise a reconnect callback awaits
  reconnectTimer,       \* this.reconnectTimer: idle or armed
  settleTimers,         \* pending setTimeout(.., RECONNECT_DELAY) callbacks
  fallbackTimers,       \* pending setTimeout(.., HEARTBEAT_TIMEOUT_FALLBACK)
  removing,             \* removeChannel()/removeAllChannels() calls awaiting unsubscribe
  track,                \* the history recorded: none, auth (grp) or manual
  grp,                  \* history: the current group of overlapping setAuth calls
  manual,               \* history: disconnect() by the application, no connect() since
  hbPrev,               \* history: the last heartbeat status reported while connected;
                        \*   where pending heartbeats are watched, stale once the
                        \*   connection ended with a heartbeat pending
  held,                 \* history: per topic, the session channel() last returned,
                        \*          0 once that session has left the registry
  last,                 \* history: what the last task did
  built,                \* the constructor call: its options, this.apiKey, whether
                        \*   this.socket was created, and what it threw
  presence              \* one RealtimePresence: the state of its upstream feed, the
                        \*   callbacks received, the events triggered on the channel
                        \*   and what state() returned

clientVars == <<conn, channels, nextId, accessToken, accessTokenValue,
                pendingHeartbeatRef, ref, authPromise, wasManualDisconnect, ops,
                waiters, reconnectTimer, settleTimers, fallbackTimers, removing,
                track, grp, manual, hbPrev, held, last>>

vars == <<conn, channels, nextId, accessToken, accessTokenValue, pendingHeartbeatRef,
          ref, authPromise, wasManualDisconnect, ops, waiters, reconnectTimer,
          settleTimers, fallbackTimers, removing, track, grp, manual, hbPrev, held,
          last, built, presence>>

\* ----------------------------------------------------------------- helpers
Cap(n) == IF n > MaxCount THEN MaxCount ELSE n

\* One more in a history counter of a client that records them.
Count(c, n) == IF c.track = "auth" THEN Cap(n + 1) ELSE n

Min(S) == CHOOSE x \in S : \A y \in S : x <= y

OpIds == 1 .. MaxOps

\* Number.prototype.toString on a non-negative integer: its decimal digits.
RECURSIVE toString(_)
toString(n) == IF n < 10 THEN <<Digit[n + 1]>>
               ELSE Append(toString(n \div 10), Digit[(n % 10) + 1])

\* IEEE-754 addition of one: exact below the limit, absorbed at it.
PlusOne(n) == IF n >= MaxSafeRef THEN n ELSE n + 1

\* What a task did: the arguments the application called with; the heartbeat status it reported (prev: the one reported
\* before it), the heartbeat ref it pushed, the reply it routed, the transport
\* calls it made, who called connect(), whether it called scheduleTimeout() and
\* setAuth(), and for channel() the topic asked for and the session returned;
\* whether it called disconnect(), the code and reason it closed the transport
\* with, the status an unsubscribe() settled with, and the statuses
\* removeChannel() or removeAllChannels() returned; and the access-token pushes
\* of a propagation pass, in the order made; whether the heartbeat callback
\* threw, and whether the promise of sendHeartbeat() rejected; what a push on a
\* channel threw to its caller and what it handed to the transport; what a
\* query answered; whether the auth operation that settled had been superseded.
NoFx(op) == [op |-> op, args |-> <<>>, status |-> "none", prev |-> "none", hb |-> NoRef,
             reply |-> NoRef, close |-> FALSE, closeCode |-> NoCode,
             closeReason |-> NoReason, disconnect |-> FALSE,
             connectBy |-> "none", tconnect |-> FALSE, sched |-> FALSE,
             setAuth |-> FALSE, topic |-> <<>>, ret |-> 0, left |-> "none",
             result |-> <<>>, pushed |-> <<>>, threw |-> FALSE,
             rejected |-> FALSE, error |-> <<>>, sent |-> <<>>,
             answer |-> <<>>, superseded |-> FALSE, failed |-> {}]

NoGrp == [calls |-> 0, provider |-> 0, passes |-> 0, superseded |-> {},
          caught |-> {}]

\* The client as one value, so that methods compose as the code calls them.
Client == [conn |-> conn, channels |-> channels, nextId |-> nextId,
           accessToken |-> accessToken, accessTokenValue |-> accessTokenValue,
           pendingHeartbeatRef |-> pendingHeartbeatRef, ref |-> ref,
           authPromise |-> authPromise, wasManualDisconnect |-> wasManualDisconnect,
           ops |-> ops, waiters |-> waiters, reconnectTimer |-> reconnectTimer,
           settleTimers |-> settleTimers, fallbackTimers |-> fallbackTimers,
           removing |-> removing, track |-> track, grp |-> grp, manual |-> manual,
           hbPrev |-> hbPrev, held |-> held, last |-> last]

Becomes(c) ==
  /\ conn' = c.conn
  /\ channels' = c.channels
  /\ nextId' = c.nextId
  /\ accessToken' = c.accessToken
  /\ accessTokenValue' = c.accessTokenValue
  /\ pendingHeartbeatRef' = c.pendingHeartbeatRef
  /\ ref' = c.ref
  /\ authPromise' = c.authPromise
  /\ wasManualDisconnect' = c.wasManualDisconnect
  /\ ops' = c.ops
  /\ waiters' = c.waiters
  /\ reconnectTimer' = c.reconnectTimer
  /\ settleTimers' = c.settleTimers
  /\ fallbackTimers' = c.fallbackTimers
  /\ removing' = c.removing
  /\ track' = c.track
  /\ grp' = c.grp
  /\ manual' = c.manual
  /\ hbPrev' = c.hbPrev
  /\ held' = c.held
  /\ last' = c.last

\* A task starts with an empty record of its effects; the history of a group of
\* overlapping setAuth calls is kept until the task after its last call settled.
Task(op) ==
  IF ops = {}
    THEN [Client EXCEPT !.last = NoFx(op),
                        !.grp = NoGrp,
                        !.channels = [i \in DOMAIN channels |->
                                        [channels[i] EXCEPT !.authPushes = 0]]]
    ELSE [Client EXCEPT !.last = NoFx(op)]

\* ------------------------------------------------------------ PhoenixSocket
isConnected(c) == c.conn = "open"

isConnecting(c) == c.conn = "connecting"

isDisconnecting(c) == c.conn = "closing"

\* connectionState(): the state of the socket, 'closed' without one.
connectionState(c) == c.conn

\* endpointURL(): socket.endPointURL(), the address the socket was made for.
endpointURL(c) == "endPointURL"

\* Mutant: asking for the state of a closed transport opens it.
queryConnects(c, q) ==
  [c EXCEPT !.last.answer = <<connectionState(c)>>,
            !.conn = IF @ = "closed" THEN "connecting" ELSE @]

\* One of the query operations, called by the application.
query(c, q) ==
  [c EXCEPT !.last.answer =
     <<CASE q = "isConnected" -> isConnected(c)
         [] q = "isConnecting" -> isConnecting(c)
         [] q = "isDisconnecting" -> isDisconnecting(c)
         [] q = "connectionState" -> connectionState(c)
         [] q = "endpointURL" -> endpointURL(c)>>]

\* socket.connect(): opens a connection unless the socket still holds one.
socketConnect(c) ==
  [c EXCEPT !.conn = IF c.conn = "closed" THEN "connecting" ELSE c.conn,
            !.last.tconnect = TRUE]

\* socket.disconnect(code, reason): closes the connection it holds, if any.
socketDisconnect(c, code, reason) ==
  [c EXCEPT !.conn = IF c.conn = "closed" THEN "closed" ELSE "closing",
            !.last.close = TRUE,
            !.last.closeCode = code,
            !.last.closeReason = reason]

\* ----------------------------------------------------------- Ref Generator
\* Mutant: no reset when the increment is absorbed.
makeRefNoReset(c) == [c EXCEPT !.ref = PlusOne(c.ref)]

makeRef(c) ==
  LET newRef == PlusOne(c.ref)
  IN [c EXCEPT !.ref = IF newRef = c.ref THEN 0 ELSE newRef]

\* --------------------------------------------------------- Auth Synchronizer
\* if (token): null and the empty string are falsy.
Truthy(token) == token # NULL /\ token # ""

\* The access-token push to one channel: the token pushed, and whether the
\* message went out or the push threw (caught and logged by _performAuth).
authPush(ch, tokenToSend) == [id |-> ch.id, token |-> tokenToSend, sent |-> ch.joined]

\* Mutant: the join payload is updated whatever the token.
updateJoinPayloadAlways(ch, tokenToSend) == [ch EXCEPT !.payload = tokenToSend]

\* tokenToSend && channel.updateJoinPayload(payload)
updateJoinPayload(ch, tokenToSend) ==
  IF Truthy(tokenToSend) THEN [ch EXCEPT !.payload = tokenToSend] ELSE ch

\* Mutant: the pass ends at the first channel whose push throws.
propagateStopsAtThrow(c, tokenToSend) ==
  LET n == Len(c.channels)
      bad == {i \in 1 .. n : ~c.channels[i].joined}
      stop == IF bad = {} THEN n ELSE Min(bad)
  IN IF c.accessTokenValue # tokenToSend
       THEN [c EXCEPT !.accessTokenValue = tokenToSend,
                      !.channels = [i \in DOMAIN c.channels |->
                          IF i <= stop
                            THEN [updateJoinPayload(c.channels[i], tokenToSend)
                                    EXCEPT !.authPushes = Count(c, @)]
                            ELSE c.channels[i]],
                      !.last.pushed = [i \in 1 .. stop |->
                                         authPush(c.channels[i], tokenToSend)],
                      !.grp.passes = Count(c, @)]
       ELSE c

\* Mutant: the resolved token is not compared with the stored one.
propagateAlways(c, tokenToSend) ==
  [c EXCEPT !.accessTokenValue = tokenToSend,
            !.channels = [i \in DOMAIN c.channels |->
                [updateJoinPayload(c.channels[i], tokenToSend)
                   EXCEPT !.authPushes = Count(c, @)]],
            !.last.pushed = [i \in DOMAIN c.channels |->
                               authPush(c.channels[i], tokenToSend)],
            !.grp.passes = Count(c, @)]

\* _performAuth from the log line on: the token is resolved.
propagate(c, tokenToSend) ==
  IF c.accessTokenValue # tokenToSend
    THEN [c EXCEPT !.accessTokenValue = tokenToSend,
                   !.channels = [i \in DOMAIN c.channels |->
                       [updateJoinPayload(c.channels[i], tokenToSend)
                          EXCEPT !.authPushes = Count(c, @)]],
                   !.last.pushed = [i \in DOMAIN c.channels |->
                                      authPush(c.channels[i], tokenToSend)],
                   !.grp.passes = Count(c, @)]
    ELSE c

\* The finally block of setAuth.
authFinally(c) == [c EXCEPT !.authPromise = NoPromise]

\* Mutant: a stored token is used instead of asking the provider again.
setAuthCached(c, token) ==
  LET c0 == [c EXCEPT !.grp.calls = Count(c, @), !.last.setAuth = TRUE]
      k == IF OpIds \ c.ops = {} THEN 0 ELSE Min(OpIds \ c.ops)
  IN IF Truthy(token)
       THEN authFinally(propagate(c0, token))
       ELSE IF c.accessToken /\ c.accessTokenValue = NULL
         THEN [c0 EXCEPT !.ops = c.ops \cup {k},
                         !.authPromise = k,
                         !.grp.provider = Count(c, @)]
         ELSE authFinally(propagate(c0, c.accessTokenValue))

\* History, where it is recorded: the operations in S started before a call
\* that has now made a propagation pass with another token.
Supersedes(c, d, S) ==
  IF c.track = "stale" /\ d.accessTokenValue # c.accessTokenValue
    THEN [d EXCEPT !.grp.superseded = @ \cup S]
    ELSE d

setAuth(c, token) ==
  LET c0 == [c EXCEPT !.grp.calls = Count(c, @), !.last.setAuth = TRUE]
      k == IF OpIds \ c.ops = {} THEN 0 ELSE Min(OpIds \ c.ops)
  IN IF Truthy(token)
       THEN authFinally(Supersedes(c0, propagate(c0, token), c.ops))
       ELSE IF c.accessToken
         THEN [c0 EXCEPT !.ops = c.ops \cup {k},
                         !.authPromise = k,
                         !.grp.provider = Count(c, @)]
         ELSE authFinally(propagate(c0, c.accessTokenValue))

\* _setAuthSafely: setAuth() with a catch that logs.  History, where it is
\* recorded: the operations whose failure this catch receives.
setAuthSafely(c) ==
  LET d == setAuth(c, NULL)
  IN IF c.track = "fail" THEN [d EXCEPT !.grp.caught = @ \cup (d.ops \ c.ops)] ELSE d

\* -------------------------------------------------------- Connection Manager
\* Mutant: connect() does not look at the state of the transport.
connectAlways(c, by) ==
  LET c0 == [c EXCEPT !.last.connectBy = by]
  IN socketConnect(IF c.accessToken /\ c.authPromise = NoPromise
                     THEN setAuthSafely(c0) ELSE c0)

connect(c, by) ==
  LET c0 == [c EXCEPT !.last.connectBy = by]
  IN IF isConnecting(c) \/ isDisconnecting(c) \/ isConnected(c)
       THEN c0
       ELSE socketConnect(IF c.accessToken /\ c.authPromise = NoPromise
                            THEN setAuthSafely(c0) ELSE c0)

\* Mutant: the transport is always closed with the normal close code.
disconnectNormal(c, code, reason) ==
  LET c0 == [c EXCEPT !.last.disconnect = TRUE]
  IN IF isDisconnecting(c) THEN c0 ELSE socketDisconnect(c0, WS_CLOSE_NORMAL, reason)

disconnect(c, code, reason) ==
  LET c0 == [c EXCEPT !.last.disconnect = TRUE]
  IN IF isDisconnecting(c) THEN c0 ELSE socketDisconnect(c0, code, reason)

\* Mutant: the callback connects without looking at the transport.
reconnectCheckUnguarded(c) == connect(c, "scheduler")

\* The reconnection callback once auth is awaited: connect only if not connected.
reconnectCheck(c) == IF ~isConnected(c) THEN connect(c, "scheduler") ELSE c

\* reconnectTimer.scheduleTimeout(): (re)arms the backoff timer.
scheduleTimeout(c) == [c EXCEPT !.reconnectTimer = "armed", !.last.sched = TRUE]

\* --------------------------------------------------------- Heartbeat Monitor
\* try { this.heartbeatCallback(status) } catch (e) { this.log(...) }: the
\* status is reported; what the callback throws is caught and logged.
heartbeatCallback(c, status, throws) ==
  [c EXCEPT !.last.status = status, !.last.threw = throws]

\* Not connected: the status is reported and nothing else happens.
heartbeatDisconnected(c, throws) == heartbeatCallback(c, "disconnected", throws)

\* A heartbeat is still pending: timeout, forced close, delayed fallback.
heartbeatTimeout(c, throws) ==
  LET c0 == [c EXCEPT !.pendingHeartbeatRef = NoRef]
      c1 == [heartbeatCallback(c0, "timeout", throws)
               EXCEPT !.wasManualDisconnect = FALSE]
      c2 == socketDisconnect(c1, WS_CLOSE_NORMAL, "heartbeat timeout")
  IN [c2 EXCEPT !.fallbackTimers = @ + 1]

\* Mutant: the auth refresh is awaited before the heartbeat is sent.
heartbeatSendAwaitsAuth(c, throws) == setAuthSafely(c)

\* Mutant: the ref stored as pending is the one before the new ref.
heartbeatSendStoresOldRef(c, throws) ==
  LET c1 == makeRef(c)
      c2 == [c1 EXCEPT !.pendingHeartbeatRef = toString(c.ref),
                       !.last.hb = toString(c1.ref)]
  IN setAuthSafely(heartbeatCallback(c2, "sent", throws))

\* Otherwise: a new ref is stored and pushed, and auth is refreshed.
heartbeatSend(c, throws) ==
  LET c1 == makeRef(c)
      c2 == [c1 EXCEPT !.pendingHeartbeatRef = toString(c1.ref),
                       !.last.hb = toString(c1.ref)]
  IN setAuthSafely(heartbeatCallback(c2, "sent", throws))

\* Mutant: a pending heartbeat does not stop the next one from being sent.
sendHeartbeatAlwaysSends(c, throws) ==
  IF ~isConnected(c) THEN heartbeatDisconnected(c, throws)
                     ELSE heartbeatSend(c, throws)

\* Mutant: the timeout branch leaves the pending ref in place.
sendHeartbeatKeepsRef(c, throws) ==
  IF ~isConnected(c)
    THEN heartbeatDisconnected(c, throws)
    ELSE IF c.pendingHeartbeatRef # NoRef
      THEN [heartbeatTimeout(c, throws)
              EXCEPT !.pendingHeartbeatRef = c.pendingHeartbeatRef]
      ELSE heartbeatSend(c, throws)

\* Mutant: the disconnected branch forgets the pending ref.
sendHeartbeatForgetsRef(c, throws) ==
  IF ~isConnected(c)
    THEN [heartbeatDisconnected(c, throws) EXCEPT !.pendingHeartbeatRef = NoRef]
    ELSE IF c.pendingHeartbeatRef # NoRef
      THEN heartbeatTimeout(c, throws)
      ELSE heartbeatSend(c, throws)

\* Mutant: every tick on a disconnected transport triggers the scheduler.
sendHeartbeatReschedules(c, throws) ==
  IF ~isConnected(c)
    THEN scheduleTimeout(heartbeatDisconnected(c, throws))
    ELSE IF c.pendingHeartbeatRef # NoRef
      THEN heartbeatTimeout(c, throws)
      ELSE heartbeatSend(c, throws)

\* Mutant: what the callback throws leaves sendHeartbeat() at the call.
sendHeartbeatUncaught(c, throws) ==
  LET thrown(d, status) == [heartbeatCallback(d, status, TRUE)
                              EXCEPT !.last.rejected = TRUE]
  IN IF ~isConnected(c)
       THEN IF throws THEN thrown(c, "disconnected")
                      ELSE heartbeatDisconnected(c, throws)
       ELSE IF c.pendingHeartbeatRef # NoRef
         THEN IF throws
                THEN thrown([c EXCEPT !.pendingHeartbeatRef = NoRef], "timeout")
                ELSE heartbeatTimeout(c, throws)
         ELSE IF throws
                THEN LET c1 == makeRef(c)
                     IN thrown([c1 EXCEPT !.pendingHeartbeatRef = toString(c1.ref),
                                          !.last.hb = toString(c1.ref)], "sent")
                ELSE heartbeatSend(c, throws)

sendHeartbeat(c, throws) ==
  IF ~isConnected(c)
    THEN heartbeatDisconnected(c, throws)
    ELSE IF c.pendingHeartbeatRef # NoRef
      THEN heartbeatTimeout(c, throws)
      ELSE heartbeatSend(c, throws)

\* The setTimeout callback of the heartbeat timeout.
heartbeatFallback(c) ==
  LET c1 == [c EXCEPT !.fallbackTimers = @ - 1]
  IN IF ~isConnected(c1) THEN scheduleTimeout(c1) ELSE c1

\* ---------------------------------------------------- Reconnection Scheduler
\* The Timer's callback: starts the settle delay.
reconnectTimerCallback(c) ==
  [c EXCEPT !.reconnectTimer = "idle", !.settleTimers = @ + 1]

\* The settle-delay callback up to the end of its task: it either awaits the
\* stored promise (_waitForAuthIfNeeded) or goes on to the connected check.
reconnectSettle(c) ==
  LET c1 == [c EXCEPT !.settleTimers = @ - 1]
  IN IF c1.authPromise # NoPromise
       THEN [c1 EXCEPT !.waiters = @ \cup {c1.authPromise}]
       ELSE reconnectCheck(c1)

\* The operations left when k has settled; the ones started after k move down,
\* so that the operations in flight are always numbered 1, 2, ...
Settled(S, k) == {IF j > k THEN j - 1 ELSE j : j \in S \ {k}}

\* setAuth's reaction to the settling of operation k: its finally block.
settle(c, k) == authFinally([c EXCEPT !.ops = Settled(c.ops, k)])

\* this.accessToken() resolves with tok: _performAuth resumes and fulfils its
\* promise; setAuth's finally runs, then the callbacks that awaited the promise.
providerResolves(c, k, tok) ==
  LET c0 == [c EXCEPT !.last.superseded = k \in c.grp.superseded]
      c1 == settle(Supersedes(c0, propagate(c0, tok), {j \in c.ops : j < k}), k)
      c2 == [c1 EXCEPT !.waiters = Settled(@, k),
                       !.grp.superseded = Settled(@, k),
                       !.grp.caught = Settled(@, k)]
  IN IF k \in c.waiters THEN reconnectCheck(c2) ELSE c2

\* this.accessToken() rejects: _performAuth rejects; setAuth's finally runs, and
\* the await of a callback that awaited the promise throws, which ends it.
\* History, where it is recorded: the failure goes to the catch of
\* _setAuthSafely or to the caller of setAuth(), and to the awaiting callback.
providerRejects(c, k) ==
  LET c1 == settle(c, k)
      failed == (IF k \in c.grp.caught THEN {"log"} ELSE {"caller"})
                  \cup (IF k \in c.waiters THEN {"reconnect"} ELSE {})
  IN [c1 EXCEPT !.waiters = Settled(@, k), !.grp.superseded = Settled(@, k),
                !.grp.caught = Settled(@, k),
                !.last.failed = IF c.track = "fail" THEN failed ELSE {}]

\* ----------------------------------------------------------- Channel Registry
Topic(t) == <<"realtime", t>>

find(chs, topic) == SelectSeq(chs, LAMBDA ch : ch.topic = topic)

\* Mutant: no lookup, every call constructs and registers a session.
channelNoLookup(c, t, params) ==
  [c EXCEPT !.channels = Append(@, [topic |-> Topic(t), id |-> c.nextId,
                                    authPushes |-> 0, joined |-> FALSE, payload |-> NULL,
                                    params |-> params]),
            !.nextId = @ + 1,
            !.last.topic = Topic(t),
            !.last.ret = c.nextId]

\* Mutant: the session found takes the options of the call.
channelTakesOptions(c, t, params) ==
  LET exists == find(c.channels, Topic(t))
  IN IF exists = <<>>
       THEN channelNoLookup(c, t, params)
       ELSE [c EXCEPT !.channels = [i \in DOMAIN @ |->
                                      IF @[i].topic = Topic(t)
                                        THEN [@[i] EXCEPT !.params = params]
                                        ELSE @[i]],
                      !.last.topic = Topic(t), !.last.ret = exists[1].id]

channel(c, t, params) ==
  LET exists == find(c.channels, Topic(t))
  IN IF exists = <<>>
       THEN [c EXCEPT !.channels = Append(@, [topic |-> Topic(t), id |-> c.nextId,
                                               authPushes |-> 0, joined |-> FALSE, payload |-> NULL,
                                               params |-> params]),
                      !.nextId = @ + 1,
                      !.last.topic = Topic(t),
                      !.last.ret = c.nextId]
       ELSE [c EXCEPT !.last.topic = Topic(t), !.last.ret = exists[1].id]

\* Mutant: the last session is moved into the place of the removed one.
removeSwapsLast(c, topic) ==
  LET chs == c.channels
      n == Len(chs)
  IN [c EXCEPT !.channels =
        IF \E i \in 1 .. n : chs[i].topic = topic
          THEN LET i == CHOOSE j \in 1 .. n : chs[j].topic = topic
               IN SubSeq([chs EXCEPT ![i] = chs[n]], 1, n - 1)
          ELSE chs]

remove(c, topic) ==
  [c EXCEPT !.channels = SelectSeq(@, LAMBDA ch : ch.topic # topic)]

\* ------------------------------------------------------------ Channel pushes
\* The error PhoenixChannel.push throws: the template string, by its parts.
PushError(event, topic) ==
  <<"tried to push '", event, "' to '", topic,
    "' before joining. Use channel.subscribe() before pushing events">>

\* Channel.push of the protocol library: it fails, at the call, on a channel
\* that has not joined, and hands the message over otherwise.
phoenixPush(c, i, event) ==
  IF c.channels[i].joined
    THEN [c EXCEPT !.last.sent = Append(@, [id |-> c.channels[i].id, event |-> event])]
    ELSE [c EXCEPT !.last.error = <<"Error">>]

\* Mutant: the catch block swallows the error.
channelPushSwallows(c, i, event) ==
  [phoenixPush(c, i, event) EXCEPT !.last.error = <<>>]

\* PhoenixChannel.push: whatever the library throws is replaced by the
\* formatted error.
channelPush(c, i, event) ==
  LET d == phoenixPush(c, i, event)
  IN IF d.last.error # <<>>
       THEN [d EXCEPT !.last.error = PushError(event, c.channels[i].topic)]
       ELSE d

\* PhoenixChannel.send: no catch, the library's error reaches the caller.
channelSend(c, i, event) == phoenixPush(c, i, event)

\* RealtimeChannel.unsubscribe() settled with a status: whatever the status, the
\* channel has closed, and a closed channel takes itself out of the registry
\* (socket._remove(this)).
\* Mutant: only a channel that left with ok takes itself out.
unsubscribedIfOk(c, ch, status) ==
  [(IF status = "ok" THEN remove(c, ch.topic) ELSE c) EXCEPT !.last.left = status]

unsubscribed(c, ch, status) == [remove(c, ch.topic) EXCEPT !.last.left = status]

ChanRef(ch) == [topic |-> ch.topic, id |-> ch.id]

\* removeChannel(channel) up to its await.
removeChannel(c, ch) == [c EXCEPT !.removing.one = @ \cup {ChanRef(ch)}]

\* Mutant: removeChannel disconnects whatever is left in the registry.
removeChannelResumeDisconnects(c, ch, status) ==
  disconnect([unsubscribed(c, ch, status) EXCEPT !.removing.one = @ \ {ch},
                                                 !.last.result = <<status>>],
             NoCode, NoReason)

\* removeChannel(channel) from its await on.
removeChannelResume(c, ch, status) ==
  LET c1 == [unsubscribed(c, ch, status) EXCEPT !.removing.one = @ \ {ch},
                                                !.last.result = <<status>>]
  IN IF Len(c1.channels) = 0 THEN disconnect(c1, NoCode, NoReason) ELSE c1

\* The unsubscribe() calls of removeAllChannels() that have not settled.
Pending(all) == {i \in DOMAIN all : all[i].st = "pending"}

\* Mutant: with no channel to unsubscribe the Session is left connected.
removeAllChannelsResumeIfAny(c) ==
  LET c1 == [c EXCEPT !.channels = <<>>,
                      !.last.result = [i \in DOMAIN c.removing.all |->
                                         c.removing.all[i].st],
                      !.removing.all = <<>>,
                      !.removing.allActive = FALSE]
  IN IF c.removing.all = <<>> THEN c1 ELSE disconnect(c1, NoCode, NoReason)

\* Mutant: the statuses of the unsubscribe() calls are not returned.
removeAllChannelsResumeNoStatuses(c) ==
  disconnect([c EXCEPT !.channels = <<>>,
                       !.removing.all = <<>>,
                       !.removing.allActive = FALSE], NoCode, NoReason)

\* removeAllChannels() from the resolution of Promise.all on.
removeAllChannelsResume(c) ==
  disconnect([c EXCEPT !.channels = <<>>,
                       !.last.result = [i \in DOMAIN c.removing.all |->
                                          c.removing.all[i].st],
                       !.removing.all = <<>>,
                       !.removing.allActive = FALSE], NoCode, NoReason)

\* removeAllChannels() up to its await: one unsubscribe() per registered
\* channel, in registration order; Promise.all of no promise is resolved.
removeAllChannels(c) ==
  LET c1 == [c EXCEPT !.removing.all = [i \in DOMAIN c.channels |->
                          [topic |-> c.channels[i].topic, id |-> c.channels[i].id,
                           st |-> "pending"]],
                      !.removing.allActive = TRUE]
  IN IF c.channels = <<>> THEN removeAllChannelsResume(c1) ELSE c1

\* Mutant: Promise.all resolves with the first unsubscribe() that settles.
removeAllChannelsSettleFirst(c, i, status) ==
  removeAllChannelsResume(
    [unsubscribed(c, ChanRef(c.removing.all[i]), status)
       EXCEPT !.removing.all[i].st = status])

\* The i-th unsubscribe() of removeAllChannels settles; the last one to settle
\* resolves Promise.all.
removeAllChannelsSettle(c, i, status) ==
  LET c1 == [unsubscribed(c, ChanRef(c.removing.all[i]), status)
               EXCEPT !.removing.all[i].st = status]
  IN IF Pending(c1.removing.all) = {} THEN removeAllChannelsResume(c1) ELSE c1

\* ------------------------------------------------------------ message routing
\* A reply bearing ref r arrives: the pending heartbeat ref is cleared when it is r.
\* Mutant: replies never clear the pending ref.
onReplyIgnored(c, r) == [c EXCEPT !.last.reply = r]

onReply(c, r) ==
  LET c1 == [c EXCEPT !.last.reply = r]
  IN IF c.pendingHeartbeatRef = r THEN [c1 EXCEPT !.pendingHeartbeatRef = NoRef] ELSE c1

Refs == {toString(n) : n \in 0 .. MaxSafeRef}

\* -------------------------------------------------------------- Construction
\* The options of a constructor call that matter to it: params.apikey (NULL:
\* no options, no params or no key), worker, whether the environment has
\* Web Workers (no window, or window.Worker), and whether accessToken is given.
Options == [apikey : ApiKeys, worker : BOOLEAN, workerSupported : BOOLEAN,
            accessToken : BOOLEAN, reconnectAfterMs : {NULL, "user"}]

\* The reconnectAfterMs of the application, where it supplies one.
UserDelay(tries) == 50 * tries

\* The field initialisers have run, the constructor body has not.
NotBuilt(o) == [options |-> o, apiKey |-> NULL, socket |-> FALSE, error |-> "none",
                done |-> FALSE, tries |-> 0, delay |-> 0]

\* Mutant: the table is read at tries, not at tries - 1.
reconnectAfterMsOffByOne(b, tries) ==
  IF b.options.reconnectAfterMs # NULL
    THEN UserDelay(tries)
    ELSE IF tries + 1 \in DOMAIN RECONNECT_INTERVALS
      THEN RECONNECT_INTERVALS[tries + 1]
      ELSE DEFAULT_RECONNECT_FALLBACK

\* this.reconnectAfterMs(tries): options.reconnectAfterMs, or the default
\* RECONNECT_INTERVALS[tries - 1] || DEFAULT_RECONNECT_FALLBACK (arrays count
\* from 0 there, sequences from 1 here).
reconnectAfterMs(b, tries) ==
  IF b.options.reconnectAfterMs # NULL
    THEN UserDelay(tries)
    ELSE IF tries \in DOMAIN RECONNECT_INTERVALS
      THEN RECONNECT_INTERVALS[tries]
      ELSE DEFAULT_RECONNECT_FALLBACK

\* _initializeOptions: throws when a worker is asked for and there is none.
initializeOptions(b) ==
  IF b.options.worker /\ ~b.options.workerSupported
    THEN [b EXCEPT !.error = WorkerUnsupported]
    ELSE b

\* Mutant: the constructor does not look at the key.
constructorUnchecked(b) ==
  LET b1 == initializeOptions([b EXCEPT !.apiKey = b.options.apikey, !.done = TRUE])
  IN IF b1.error # "none" THEN b1 ELSE [b1 EXCEPT !.socket = TRUE]

constructor(b) ==
  IF ~Truthy(b.options.apikey)
    THEN [b EXCEPT !.error = ApiKeyRequired, !.done = TRUE]
    ELSE LET b1 == initializeOptions([b EXCEPT !.apiKey = b.options.apikey,
                                               !.done = TRUE])
         IN IF b1.error # "none" THEN b1 ELSE [b1 EXCEPT !.socket = TRUE]

\* ------------------------------------------------------------ Presence Relay
Snapshots == [Keys -> Metas]

NoPresence == [state |-> [k \in Keys |-> <<>>], received |-> <<>>,
               triggered |-> <<>>, returned |-> <<>>, op |-> "none"]

\* this.channel._trigger(type, payload)
trigger(p, type, payload) ==
  [p EXCEPT !.triggered = Append(@, [type |-> type, payload |-> payload])]

\* Mutant: the relay merges the new presences into the state.
onJoinMerges(p, key, currentPresences, newPresences) ==
  [trigger(p, "presence", [event |-> "join", key |-> key,
                           currentPresences |-> currentPresences,
                           newPresences |-> newPresences])
     EXCEPT !.state[key] = newPresences]

onJoin(p, key, currentPresences, newPresences) ==
  trigger(p, "presence", [event |-> "join", key |-> key,
                          currentPresences |-> currentPresences,
                          newPresences |-> newPresences])

\* Mutant: the leave callback is a copy of the join callback.
onLeaveAsJoin(p, key, currentPresences, leftPresences) ==
  trigger(p, "presence", [event |-> "leave", key |-> key,
                          currentPresences |-> currentPresences,
                          newPresences |-> leftPresences])

onLeave(p, key, currentPresences, leftPresences) ==
  trigger(p, "presence", [event |-> "leave", key |-> key,
                          currentPresences |-> currentPresences,
                          leftPresences |-> leftPresences])

onSync(p) == trigger(p, "presence", [event |-> "sync"])

\* RealtimePresence.state(): PhoenixPresence.state(), the feed's state.
presenceState(p) == p.state

\* The feed calls one of the callbacks registered with it.
Received(fn, args) ==
  [presence EXCEPT !.received = Append(@, [fn |-> fn, args |-> args]), !.op = fn]

\* ------------------------------------------------------------------- state
\* The bounds: what a task may leave pending.
Room(c) == IF c.track = "order" THEN MaxChannels + 2 ELSE MaxChannels

Fits(c) ==
  /\ 0 \notin c.ops
  /\ c.settleTimers <= MaxTimers
  /\ c.fallbackTimers <= MaxTimers
  /\ c.nextId <= Room(c) + 1

Fields ==
  /\ conn = "closed"
  /\ channels = <<>>
  /\ nextId = 1
  /\ accessTokenValue = NULL
  /\ pendingHeartbeatRef = NoRef
  /\ ref = 0
  /\ authPromise = NoPromise
  /\ wasManualDisconnect = FALSE
  /\ ops = {}
  /\ waiters = {}
  /\ reconnectTimer = "idle"
  /\ settleTimers = 0
  /\ fallbackTimers = 0
  /\ removing = [one |-> {}, all |-> <<>>, allActive |-> FALSE]
  /\ grp = NoGrp
  /\ manual = FALSE
  /\ hbPrev = "none"
  /\ held = [t \in Topics |-> 0]
  /\ last = NoFx("init")
  /\ presence = NoPresence

\* The client a constructor call with an API key returns.
Constructed ==
  /\ Fields
  /\ accessToken \in BOOLEAN
  /\ built = constructor(NotBuilt([apikey |-> "k1", worker |-> FALSE,
                                   workerSupported |-> TRUE,
                                   accessToken |-> accessToken,
                                   reconnectAfterMs |-> NULL]))

\* Before the constructor body runs, for every choice of options.
InitConstruct ==
  /\ Fields
  /\ accessToken = FALSE
  /\ track = "none"
  /\ \E o \in Options : built = NotBuilt(o)

Init == Constructed /\ track = "none"

InitAuth == Constructed /\ track = "auth"

InitManual == Constructed /\ track = "manual"

\* A registry watched for its order: three topics, and room for a session to
\* be created again after it was removed.
InitOrder == Constructed /\ track = "order"

\* A client with a token provider, watched for auth operations that settle
\* after a call started later has propagated.
InitStale == Constructed /\ track = "stale" /\ accessToken

Asked == IF track = "order" THEN Topics \cup {"c"} ELSE Topics

\* The options of channel(): the default, and where the registry is watched
\* one more.
AskedParams == IF track = "order" THEN ChannelParams ELSE {DefaultParams}

\* The history variables follow what the task did.
Observed(c) ==
  [c EXCEPT
     !.hbPrev = IF /\ c.track = "pending" /\ conn = "open" /\ c.conn # "open"
                   /\ c.pendingHeartbeatRef # NoRef
                  THEN "stale"
                  ELSE IF c.last.status \in {"sent", "timeout"} THEN c.last.status
                  ELSE @,
     !.held = [t \in Topics |->
                 IF c.last.op = "channel" /\ c.last.topic = Topic(t) THEN c.last.ret
                 ELSE IF \E i \in DOMAIN c.channels : c.channels[i].id = c.held[t]
                   THEN c.held[t]
                   ELSE 0]]

Step(c) == Becomes(Observed(c)) /\ UNCHANGED <<built, presence>>

\* ------------------------------------------------------------------ actions
\* new RealtimeClient(endPoint, options)
Construct ==
  /\ ~built.done
  /\ built' = constructor(built)
  /\ Becomes([Client EXCEPT !.last = NoFx("constructor"),
                            !.accessToken = built'.socket /\ built.options.accessToken])
  /\ UNCHANGED presence

\* The reconnect timer asks for the delay of an attempt.
TimerAsksDelay ==
  \E tries \in 1 .. MaxTries :
    /\ built.socket
    /\ built' = [built EXCEPT !.tries = tries, !.delay = reconnectAfterMs(built, tries)]
    /\ UNCHANGED <<clientVars, presence>>

\* The upstream feed has taken in a presence diff.
FeedChanges ==
  \E snapshot \in Snapshots :
    /\ snapshot # presence.state
    /\ presence' = [presence EXCEPT !.state = snapshot, !.op = "feed"]
    /\ UNCHANGED <<clientVars, built>>

FeedJoins ==
  \E key \in Keys, currentPresences \in Metas, newPresences \in Metas \ {<<>>} :
    /\ Len(presence.received) < MaxEvents
    /\ presence' = onJoin(Received("onJoin", <<key, currentPresences, newPresences>>),
                          key, currentPresences, newPresences)
    /\ UNCHANGED <<clientVars, built>>

FeedLeaves ==
  \E key \in Keys, currentPresences \in Metas, leftPresences \in Metas \ {<<>>} :
    /\ Len(presence.received) < MaxEvents
    /\ presence' = onLeave(Received("onLeave", <<key, currentPresences, leftPresences>>),
                           key, currentPresences, leftPresences)
    /\ UNCHANGED <<clientVars, built>>

FeedSyncs ==
  /\ Len(presence.received) < MaxEvents
  /\ presence' = onSync(Received("onSync", <<>>))
  /\ UNCHANGED <<clientVars, built>>

AppPresenceState ==
  /\ presence' = [presence EXCEPT !.returned = <<presenceState(presence)>>,
                                  !.op = "state"]
  /\ UNCHANGED <<clientVars, built>>

AppConnect ==
  LET c == [connect(Task("connect"), "app") EXCEPT !.manual = FALSE]
  IN Fits(c) /\ Step(c)

AppDisconnect ==
  \E args \in CloseArgs :
    LET c == [disconnect([Task("disconnect") EXCEPT !.last.args = args],
                         args[1], args[2])
                EXCEPT !.manual = (track = "manual")]
    IN Fits(c) /\ Step(c)

AppSetAuth ==
  \E token \in Tokens \cup {NULL} :
    LET c == setAuth([Task("setAuth") EXCEPT !.last.args = <<token>>], token)
    IN Fits(c) /\ Step(c)

\* setAuth('') by the application.
AppSetAuthEmpty ==
  LET c == setAuth([Task("setAuth") EXCEPT !.last.args = <<"">>], "")
  IN Fits(c) /\ Step(c)

AppChannel ==
  \E t \in Asked, params \in AskedParams :
    LET c == channel([Task("channel") EXCEPT !.last.args = <<t, params>>], t, params)
    IN Fits(c) /\ Step(c)

\* The join of a registered channel goes through: from now on it takes pushes.
ChannelJoins ==
  \E i \in DOMAIN channels :
    /\ ~channels[i].joined
    /\ Step([Task("join") EXCEPT !.channels[i].joined = TRUE])

AppQuery ==
  \E q \in Queries :
    LET c == query(Task(q), q)
    IN Fits(c) /\ Step(c)

AppChannelPush ==
  \E i \in DOMAIN channels, event \in Events :
    LET c == channelPush([Task("push") EXCEPT !.last.args = <<i, event>>], i, event)
    IN Fits(c) /\ Step(c)

AppChannelSend ==
  \E i \in DOMAIN channels, event \in Events :
    LET c == channelSend([Task("send") EXCEPT !.last.args = <<i, event>>], i, event)
    IN Fits(c) /\ Step(c)

ChannelRemoved ==
  \E i \in DOMAIN channels :
    LET c == remove(Task("_remove"), channels[i].topic)
    IN Fits(c) /\ Step(c)

AppRemoveChannel ==
  \E i \in DOMAIN channels :
    /\ ChanRef(channels[i]) \notin removing.one
    /\ Step(removeChannel(Task("removeChannel"), channels[i]))

RemoveChannelResumes ==
  \E ch \in removing.one, status \in Statuses :
    LET c == removeChannelResume(Task("removeChannelResume"), ch, status)
    IN Fits(c) /\ Step(c)

AppRemoveAllChannels ==
  /\ ~removing.allActive
  /\ Step(removeAllChannels(Task("removeAllChannels")))

RemoveAllChannelsSettles ==
  \E i \in Pending(removing.all), status \in Statuses :
    LET c == removeAllChannelsSettle(Task("removeAllChannelsSettle"), i, status)
    IN Fits(c) /\ Step(c)

ReplyArrives ==
  /\ conn = "open"
  /\ \E r \in Refs : Step(onReply(Task("reply"), r))

HeartbeatTick ==
  \E throws \in BOOLEAN :
    LET c == sendHeartbeat([Task("sendHeartbeat") EXCEPT !.last.prev = hbPrev],
                           throws)
    IN Fits(c) /\ Step(c)

HeartbeatFallbackFires ==
  /\ fallbackTimers > 0
  /\ Step(heartbeatFallback(Task("heartbeatFallback")))

ReconnectTimerFires ==
  /\ reconnectTimer = "armed"
  /\ LET c == reconnectTimerCallback(Task("reconnectTimer"))
     IN Fits(c) /\ Step(c)

ReconnectSettleFires ==
  /\ settleTimers > 0
  /\ LET c == reconnectSettle(Task("reconnectSettle"))
     IN Fits(c) /\ Step(c)

ProviderResolves ==
  \E k \in ops, tok \in Tokens \cup {NULL} :
    LET c == providerResolves([Task("providerSettles") EXCEPT !.last.args = <<tok>>],
                              k, tok)
    IN Fits(c) /\ Step(c)

ProviderRejects ==
  \E k \in ops :
    LET c == providerRejects(Task("providerSettles"), k)
    IN Fits(c) /\ Step(c)

\* The transport's own moves.
TransportOpens == conn = "connecting" /\ Step([Task("transport") EXCEPT !.conn = "open"])

TransportFails == conn = "connecting" /\ Step([Task("transport") EXCEPT !.conn = "closed"])

TransportLost == conn = "open" /\ Step([Task("transport") EXCEPT !.conn = "closed"])

TransportClosed == conn = "closing" /\ Step([Task("transport") EXCEPT !.conn = "closed"])

Next ==
  \/ AppConnect
  \/ AppDisconnect
  \/ AppSetAuth
  \/ AppSetAuthEmpty
  \/ ChannelJoins
  \/ AppChannel
  \/ AppQuery
  \/ AppChannelPush
  \/ AppChannelSend
  \/ TimerAsksDelay
  \/ FeedChanges
  \/ FeedJoins
  \/ FeedLeaves
  \/ FeedSyncs
  \/ AppPresenceState
  \/ ChannelRemoved
  \/ AppRemoveChannel
  \/ RemoveChannelResumes
  \/ AppRemoveAllChannels
  \/ RemoveAllChannelsSettles
  \/ ReplyArrives
  \/ HeartbeatTick
  \/ HeartbeatFallbackFires
  \/ ReconnectTimerFires
  \/ ReconnectSettleFires
  \/ ProviderResolves
  \/ ProviderRejects
  \/ TransportOpens
  \/ TransportFails
  \/ TransportLost
  \/ TransportClosed

Spec == Init /\ [][Next]_vars

\* Heartbeat, reconnection and auth on a client without channels.
NextSession ==
  \/ AppConnect
  \/ AppDisconnect
  \/ AppSetAuth
  \/ ReplyArrives
  \/ HeartbeatTick
  \/ HeartbeatFallbackFires
  \/ ReconnectTimerFires
  \/ ReconnectSettleFires
  \/ ProviderResolves
  \/ ProviderRejects
  \/ TransportOpens
  \/ TransportFails
  \/ TransportLost
  \/ TransportClosed

SpecSession == Init /\ [][NextSession]_vars

\* The same client, with the history of manual disconnects recorded.
SpecReconnect == InitManual /\ [][NextSession]_vars

\* The registry and the connection, without heartbeats and timers.
NextRegistry ==
  \/ AppConnect
  \/ AppDisconnect
  \/ AppChannel
  \/ ChannelRemoved
  \/ AppRemoveChannel
  \/ RemoveChannelResumes
  \/ AppRemoveAllChannels
  \/ RemoveAllChannelsSettles
  \/ TransportOpens
  \/ TransportFails
  \/ TransportLost
  \/ TransportClosed

SpecRegistry == Init /\ [][NextRegistry]_vars

\* Auth propagation to channels: setAuth from the application, connect() and
\* the heartbeat.
NextAuth ==
  \/ AppConnect
  \/ AppSetAuth
  \/ AppChannel
  \/ ReplyArrives
  \/ HeartbeatTick
  \/ HeartbeatFallbackFires
  \/ ProviderResolves
  \/ ProviderRejects
  \/ TransportOpens
  \/ TransportLost
  \/ TransportClosed

SpecAuth == InitAuth /\ [][NextAuth]_vars

\* The Auth Synchronizer and the channels it propagates to: channel() and
\* setAuth() calls and the token provider.
NextToken ==
  \/ AppChannel
  \/ ChannelJoins
  \/ AppSetAuth
  \/ AppSetAuthEmpty
  \/ ProviderResolves
  \/ ProviderRejects

SpecToken == Init /\ [][NextToken]_vars

SpecStale == InitStale /\ [][NextToken]_vars

\* The queries, asked in the states connection, heartbeat and auth lead to.
NextQuery ==
  \/ AppConnect
  \/ AppDisconnect
  \/ AppSetAuth
  \/ AppChannel
  \/ AppQuery
  \/ HeartbeatTick
  \/ ProviderResolves
  \/ TransportOpens
  \/ TransportClosed

SpecQuery == Init /\ [][NextQuery]_vars

\* Pushes of the application on its channels, joined or not.
NextPush ==
  \/ AppChannel
  \/ ChannelJoins
  \/ AppChannelPush
  \/ AppChannelSend
  \/ ChannelRemoved

SpecPush == Init /\ [][NextPush]_vars

\* Construction, with any options, and the first use of what it returns.
NextConstruct ==
  \/ Construct
  \/ TimerAsksDelay
  \/ built.socket /\ NextPush

SpecConstruct == InitConstruct /\ [][NextConstruct]_vars

\* One presence relay and its upstream feed.
NextPresence ==
  \/ FeedChanges
  \/ FeedJoins
  \/ FeedLeaves
  \/ FeedSyncs
  \/ AppPresenceState

SpecPresence == Init /\ [][NextPresence]_vars

\* The registry alone, with three topics.
NextOrder ==
  \/ AppChannel
  \/ ChannelJoins
  \/ ChannelRemoved

SpecOrder == InitOrder /\ [][NextOrder]_vars

\* A client that is never told to connect: the channel registry alone.
NextUnconnected ==
  \/ AppChannel
  \/ ChannelRemoved
  \/ AppRemoveChannel
  \/ RemoveChannelResumes
  \/ AppRemoveAllChannels
  \/ RemoveAllChannelsSettles

SpecUnconnected == Init /\ [][NextUnconnected]_vars

\* A client without a token provider: connection, heartbeat and scheduler.  The
\* pending timeouts fire and a closing transport ends up closed.
InitNoProvider == Constructed /\ track = "none" /\ ~accessToken

NextTimers ==
  \/ AppConnect
  \/ AppDisconnect
  \/ ReplyArrives
  \/ HeartbeatTick
  \/ HeartbeatFallbackFires
  \/ ReconnectTimerFires
  \/ ReconnectSettleFires
  \/ TransportOpens
  \/ TransportFails
  \/ TransportLost
  \/ TransportClosed

TimersFire ==
  /\ WF_vars(HeartbeatFallbackFires)
  /\ WF_vars(ReconnectTimerFires)
  /\ WF_vars(ReconnectSettleFires)
  /\ WF_vars(TransportClosed)

SpecTimers == InitNoProvider /\ [][NextTimers]_vars /\ TimersFire

\* The same client, watched for heartbeats left pending by a connection.
InitPending == Constructed /\ track = "pending" /\ ~accessToken

SpecPending == InitPending /\ [][NextTimers]_vars

\* A client with a token provider, watched for where the provider's failures
\* go: setAuth() from the application, connect(), the heartbeat and the
\* Reconnection Scheduler.
InitFail == Constructed /\ track = "fail" /\ accessToken

NextFail ==
  \/ AppConnect
  \/ AppSetAuthEmpty
  \/ HeartbeatTick
  \/ HeartbeatFallbackFires
  \/ ReconnectTimerFires
  \/ ReconnectSettleFires
  \/ ProviderResolves
  \/ ProviderRejects
  \/ TransportOpens
  \/ TransportClosed

SpecFail == InitFail /\ [][NextFail]_vars

\* The same client, with nothing said about when its timers fire.
SpecHeartbeat == InitNoProvider /\ [][NextTimers]_vars

\* ------------------------------------------------------------------- claims
Tick == last'.op = "sendHeartbeat"

\* C1: two setAuth() calls of which the second is issued before the first has
\* settled invoke the token provider exactly once and make at most one
\* propagation pass, so that no channel is pushed the access token twice.
C1_SingleFlight ==
  grp.calls >= 2 =>
    /\ grp.provider = 1
    /\ grp.passes <= 1
    /\ \A i \in DOMAIN channels : channels[i].authPushes <= 1

\* C2: while an auth operation started by setAuth() is unsettled, _authPromise
\* is not null.
C2_HandleHeldWhileUnsettled == ops # {} => authPromise # NoPromise

\* C3: the Reconnection Scheduler calls connect() only when no auth operation
\* is unsettled: none when its callback goes straight to the connected check,
\* none but the one that has just settled when it awaited one.
C3_Step ==
  last'.connectBy = "scheduler" =>
    IF last'.op = "reconnectSettle" THEN ops = {} ELSE Cardinality(ops) = 1

C3_ReconnectAwaitsAuth == [][C3_Step]_vars

\* C4: the registry never holds two sessions with one topic, and channel(topic)
\* returns the session its previous call for that topic returned as long as
\* that session has not been removed.
UniqueTopics ==
  \A i, j \in DOMAIN channels : channels[i].topic = channels[j].topic => i = j

C4_Step ==
  /\ UniqueTopics'
  /\ \A t \in Topics :
       (last'.op = "channel" /\ last'.topic = Topic(t) /\ held[t] # 0)
         => last'.ret = held[t]

C4_OneSessionPerTopic == UniqueTopics /\ [][C4_Step]_vars

\* Two sessions are registered and channel() returned the older of them.
C4_Witness ==
  last.op = "channel" /\ Len(channels) = 2 /\ last.ret = 1 /\ nextId = 3

\* C5: a heartbeat message is pushed only by a task that found no heartbeat
\* pending.
C5_Step == last'.hb # NoRef => pendingHeartbeatRef = NoRef

C5_NoPushWhilePending == [][C5_Step]_vars

\* The third heartbeat of a run has been pushed (its ref wrapped to "0").
C5_Witness == last.status = "sent" /\ last.hb = <<"0">> /\ pendingHeartbeatRef = <<"0">>

\* C6: sendHeartbeat() on a connected transport with a heartbeat pending reports
\* timeout, clears the pending ref, closes the transport with the normal close
\* code and pushes nothing; the next sendHeartbeat() on a connected transport
\* reports sent.
C6_Step ==
  /\ (Tick /\ conn = "open" /\ pendingHeartbeatRef # NoRef) =>
       /\ last'.status = "timeout"
       /\ pendingHeartbeatRef' = NoRef
       /\ last'.close /\ last'.closeCode = WS_CLOSE_NORMAL
       /\ conn' = "closing"
       /\ last'.hb = NoRef
  /\ (Tick /\ conn = "open" /\ hbPrev = "timeout") => last'.status = "sent"

C6_TimeoutThenSent == [][C6_Step]_vars

\* A heartbeat was sent on a connected transport after a timeout.
C6_Witness ==
  last.op = "sendHeartbeat" /\ last.prev = "timeout" /\ last.status = "sent"

\* C7: a reply bearing the pending heartbeat ref clears it, and the next
\* sendHeartbeat() on a connected transport after an answered heartbeat reports
\* sent, pushes a new heartbeat and leaves the connection open.
C7_Step ==
  /\ (last'.op = "reply" /\ last'.reply = pendingHeartbeatRef) =>
       pendingHeartbeatRef' = NoRef
  /\ (Tick /\ conn = "open" /\ hbPrev = "sent" /\ pendingHeartbeatRef = NoRef) =>
       /\ last'.status = "sent"
       /\ last'.hb # NoRef
       /\ ~last'.close
       /\ conn' = "open"

C7_ReplyClearsPending == [][C7_Step]_vars

\* Two heartbeats were sent in a row: the first was answered in between.
C7_Witness ==
  last.op = "sendHeartbeat" /\ last.prev = "sent" /\ last.status = "sent"

\* C8: sendHeartbeat() on a transport that is not connected reports
\* disconnected and does nothing else: no push, no close, no reconnection
\* trigger, no setAuth() call, no change of the client's state.
C8_Step ==
  (Tick /\ conn # "open") =>
    /\ last'.status = "disconnected"
    /\ last'.hb = NoRef
    /\ ~last'.close
    /\ ~last'.sched
    /\ ~last'.setAuth
    /\ last'.connectBy = "none"
    /\ UNCHANGED <<conn, channels, nextId, accessToken, accessTokenValue,
                   pendingHeartbeatRef, ref, authPromise, wasManualDisconnect,
                   ops, waiters, reconnectTimer, settleTimers, fallbackTimers,
                   removing>>

C8_DisconnectedIsNoOp == [][C8_Step]_vars

\* A tick found the transport disconnected with a heartbeat still pending.
C8_Witness ==
  /\ last.op = "sendHeartbeat" /\ last.status = "disconnected"
  /\ pendingHeartbeatRef # NoRef /\ conn = "closed"

\* C9: a tick on a connected transport with no pending ref reports sent; with
\* no reply the next one reports timeout, closes the transport once and arms
\* one fallback, which triggers the scheduler once if the transport is still
\* not connected; ticks on a disconnected transport report disconnected and
\* neither close nor trigger anything, and nothing but a fallback triggers.
C9_Step ==
  /\ (Tick /\ conn = "open" /\ pendingHeartbeatRef = NoRef) => last'.status = "sent"
  /\ (Tick /\ conn = "open" /\ pendingHeartbeatRef # NoRef) =>
       /\ last'.status = "timeout"
       /\ last'.close
       /\ fallbackTimers' = fallbackTimers + 1
       /\ ~last'.sched
  /\ (Tick /\ conn # "open") =>
       /\ last'.status = "disconnected"
       /\ ~last'.close
       /\ ~last'.sched
       /\ UNCHANGED <<fallbackTimers, reconnectTimer, settleTimers>>
  /\ last'.op = "heartbeatFallback" =>
       /\ fallbackTimers' = fallbackTimers - 1
       /\ last'.sched <=> conn # "open"
  /\ last'.sched => last'.op = "heartbeatFallback"

C9_TimeoutReconnectsOnce == [][C9_Step]_vars

\* After sent and timeout the fallback has armed the scheduler, and a further
\* tick found the transport still disconnected.
C9_Witness ==
  /\ last.op = "sendHeartbeat" /\ last.status = "disconnected"
  /\ hbPrev = "timeout" /\ reconnectTimer = "armed" /\ fallbackTimers = 0

\* C10: after disconnect() by the application the Reconnection Scheduler does
\* not have the transport connect until the application calls connect().
C10_Step == (manual /\ last'.connectBy = "scheduler") => ~last'.tconnect

C10_ManualDisconnectSuppresses == [][C10_Step]_vars

\* C11: after a heartbeat timeout the transport is eventually connected or is
\* eventually told to connect, whatever state it is in when the scheduler's
\* callback runs.
C11_TimeoutReconnects ==
  (last.op = "sendHeartbeat" /\ last.status = "timeout")
    ~> (conn = "open" \/ last.tconnect)

\* A session (topic and identity) that is in the registry.
Registered(chs, ch) == \E i \in DOMAIN chs : ChanRef(chs[i]) = ch

\* C12: when removeChannel(ch) resumes for a registered ch, it takes ch and
\* nothing else out of the registry; if that leaves the registry empty it calls
\* disconnect(), which has the transport close unless it is closing already;
\* otherwise it does not call disconnect() and the connection stays as it is.
C12_Step ==
  last'.op = "removeChannelResume" =>
    \E ch \in removing.one :
      /\ removing'.one = removing.one \ {ch}
      /\ Registered(channels, ch) =>
           /\ channels' = SelectSeq(channels, LAMBDA x : ChanRef(x) # ch)
           /\ channels' = <<>> =>
                /\ last'.disconnect
                /\ last'.close <=> conn # "closing"
                /\ conn' = IF conn = "closed" THEN "closed" ELSE "closing"
           /\ channels' # <<>> =>
                ~last'.disconnect /\ ~last'.close /\ ~last'.tconnect /\ conn' = conn

C13_Step ==
  last'.op = "removeChannelResume" =>
    \E ch \in removing.one :
      /\ removing'.one = removing.one \ {ch}
      /\ \A i \in DOMAIN channels' : channels'[i].topic # ch.topic
      /\ last'.left \in Statuses
      /\ last'.result = <<last'.left>>

Disconnected ==
  /\ last'.disconnect
  /\ last'.close <=> conn # "closing"
  /\ conn' = IF conn = "closed" THEN "closed" ELSE "closing"

\* C14: removeAllChannels() on a non-empty registry clears nothing and does
\* not disconnect; an unsubscribe that settles while others are pending takes
\* only its own session out and does not disconnect; when the last one settles
\* the registry is emptied and disconnect() is called.
C14_Step ==
  /\ (last'.op = "removeAllChannels" /\ channels # <<>>) =>
       /\ channels' = channels
       /\ Pending(removing'.all) = DOMAIN channels
       /\ ~last'.disconnect /\ ~last'.close /\ conn' = conn
  /\ last'.op = "removeAllChannelsSettle" =>
       \E i \in Pending(removing.all) :
         IF Pending(removing.all) = {i}
           THEN /\ channels' = <<>>
                /\ removing'.all = <<>> /\ ~removing'.allActive
                /\ Disconnected
           ELSE /\ Pending(removing'.all) = Pending(removing.all) \ {i}
                /\ removing'.allActive
                /\ channels' = SelectSeq(channels,
                                  LAMBDA x : x.topic # removing.all[i].topic)
                /\ ~last'.disconnect /\ ~last'.close /\ conn' = conn

C14_WaitsForEveryUnsubscribe == [][C14_Step]_vars

\* After a failed and a successful unsubscribe the registry is empty and the
\* open transport was told to close.
C14_Witness ==
  /\ last.op = "removeAllChannelsSettle" /\ last.result = <<"error", "ok">>
  /\ channels = <<>> /\ last.close /\ conn = "closing"

\* C15: removeAllChannels() starts one unsubscribe per registered channel, in
\* registration order, and returns their statuses in that order whatever the
\* order they settled in; it calls disconnect() when it returns, also when
\* there was no channel.
C15_Step ==
  /\ last'.op = "removeAllChannels" =>
       IF channels = <<>>
         THEN last'.result = <<>> /\ Disconnected
         ELSE removing'.all =
                [i \in DOMAIN channels |->
                   [topic |-> channels[i].topic, id |-> channels[i].id,
                    st |-> "pending"]]
  /\ last'.op = "removeAllChannelsSettle" =>
       \E i \in Pending(removing.all) :
         LET all == [removing.all EXCEPT ![i].st = last'.left]
         IN /\ last'.left \in Statuses
            /\ IF Pending(removing.all) = {i}
                 THEN /\ last'.result = [j \in DOMAIN all |-> all[j].st]
                      /\ Disconnected
                 ELSE removing'.all = all /\ last'.result = <<>>

C15_StatusesInRegistrationOrder == [][C15_Step]_vars

\* The unsubscribe of the first channel settled last, and its status comes first.
C15_Witness ==
  /\ last.op = "removeAllChannelsSettle" /\ last.left = "timed out"
  /\ last.result = <<"timed out", "ok">>

\* C16: on a client that never connected, removeAllChannels() called with one
\* registered channel completes when that channel's unsubscribe settles: it
\* returns exactly one status, the registry is empty, and the disconnect() it
\* makes leaves the closed transport closed.
C16_Step ==
  (last'.op = "removeAllChannelsSettle" /\ Len(removing.all) = 1 /\ conn = "closed") =>
    /\ Len(last'.result) = 1 /\ last'.result[1] \in Statuses
    /\ channels' = <<>>
    /\ ~removing'.allActive
    /\ last'.disconnect /\ conn' = "closed"

C16_RemoveAllBeforeConnecting == [][C16_Step]_vars

\* channel() then removeAllChannels() on a fresh client, and the call returned.
C16_Witness ==
  /\ last.op = "removeAllChannelsSettle" /\ Len(last.result) = 1
  /\ channels = <<>> /\ nextId = 2 /\ conn = "closed"

\* The fields of the client and what is pending on its behalf.
ClientState ==
  <<conn, channels, nextId, accessToken, accessTokenValue, pendingHeartbeatRef,
    ref, authPromise, wasManualDisconnect, ops, waiters, reconnectTimer,
    settleTimers, fallbackTimers, removing>>

\* C17: connect() called by the application while the transport is connecting,
\* closing or open changes nothing: no transport connect(), no setAuth(); the
\* same holds of the connect() the scheduler's callback makes.
C17_Step ==
  /\ (last'.op = "connect" /\ conn # "closed") =>
       /\ ~last'.tconnect /\ ~last'.setAuth
       /\ UNCHANGED ClientState
  /\ (last'.connectBy = "scheduler" /\ conn # "closed") =>
       /\ ~last'.tconnect /\ ~last'.setAuth
       /\ conn' = conn /\ authPromise' = NoPromise

C17_ConnectIsNoOpUnlessClosed == [][C17_Step]_vars

\* connect() was called on a closing transport of a client with a token
\* provider and no stored auth promise.
C17_Witness ==
  /\ last.op = "connect" /\ conn = "closing" /\ ~last.tconnect
  /\ accessToken /\ authPromise = NoPromise /\ ops = {}

\* C18: connect() on a closed transport has the transport connect, and starts
\* an auth refresh exactly when there is a token provider and no auth
\* operation is unsettled.
C18_Step ==
  (last'.op = "connect" /\ conn = "closed") =>
    /\ last'.tconnect /\ conn' = "connecting"
    /\ last'.setAuth <=> (accessToken /\ ops = {})

C18_ConnectRefreshesAuth == [][C18_Step]_vars

\* C19: disconnect(code, reason) on a closing transport makes no transport call
\* and changes nothing; in any other state it has the transport close with the
\* code and the reason it was given.
C19_Step ==
  last'.op = "disconnect" =>
    IF conn = "closing"
      THEN ~last'.close /\ UNCHANGED ClientState
      ELSE /\ last'.close
           /\ <<last'.closeCode, last'.closeReason>> = last'.args
           /\ conn' = IF conn = "closed" THEN "closed" ELSE "closing"

C19_DisconnectPassesCodeAndReason == [][C19_Step]_vars

\* An open transport was told to close with an application code and no reason.
C19_Witness ==
  /\ last.op = "disconnect" /\ last.args = <<4000, NoReason>>
  /\ last.close /\ last.closeCode = 4000 /\ conn = "closing"

\* C20 as stated: setAuth(token) makes an argument other than null the stored
\* token without asking the provider; without one it asks the provider, once
\* per call whatever token is stored, and the token the provider resolves with
\* becomes the stored one; without a provider the stored token stays.
C20_AsStated_Step ==
  /\ last'.op = "setAuth" =>
       LET token == last'.args[1]
       IN IF token # NULL
            THEN accessTokenValue' = token /\ ops' = ops
            ELSE IF accessToken
              THEN /\ Cardinality(ops') = Cardinality(ops) + 1
                   /\ accessTokenValue' = accessTokenValue
              ELSE ops' = ops /\ accessTokenValue' = accessTokenValue
  /\ last'.op = "providerSettles" =>
       /\ Cardinality(ops') = Cardinality(ops) - 1
       /\ accessTokenValue' = IF last'.args = <<>> THEN accessTokenValue
                               ELSE last'.args[1]

C20_AsStated == [][C20_AsStated_Step]_vars

\* C20, amended: the same, for an argument that is neither null nor the empty
\* string; the empty string is treated as no argument.
C20_Step ==
  /\ last'.op = "setAuth" =>
       LET token == last'.args[1]
       IN IF Truthy(token)
            THEN accessTokenValue' = token /\ ops' = ops
            ELSE IF accessToken
              THEN /\ Cardinality(ops') = Cardinality(ops) + 1
                   /\ accessTokenValue' = accessTokenValue
              ELSE ops' = ops /\ accessTokenValue' = accessTokenValue
  /\ last'.op = "providerSettles" =>
       /\ Cardinality(ops') = Cardinality(ops) - 1
       /\ accessTokenValue' = IF last'.args = <<>> THEN accessTokenValue
                               ELSE last'.args[1]

C20_TokenPriority == [][C20_Step]_vars

\* setAuth() asked the provider although a token was stored.
C20_Witness ==
  /\ last.op = "setAuth" /\ last.args = <<NULL>>
  /\ accessToken /\ accessTokenValue = "t1" /\ authPromise # NoPromise

\* A task in which setAuth resolved a token: the explicit argument, or the
\* token the provider resolved with.
Resolves ==
  \/ last'.op = "setAuth" /\ Truthy(last'.args[1])
  \/ last'.op = "providerSettles" /\ last'.args # <<>>

\* The access-token push was attempted on every registered channel, in
\* registry order, with the token tok.
PushedToAll(tok) ==
  /\ Len(last'.pushed) = Len(channels)
  /\ \A i \in DOMAIN channels :
       last'.pushed[i].id = channels[i].id /\ last'.pushed[i].token = tok

\* C21 as stated: a resolved token that differs from the stored one becomes the
\* stored one, and every registered channel has it put in its join payload and
\* has the access-token push made with it.
C21_AsStated_Step ==
  (Resolves /\ last'.args[1] # accessTokenValue) =>
    LET tok == last'.args[1]
    IN /\ accessTokenValue' = tok
       /\ Len(channels') = Len(channels)
       /\ \A i \in DOMAIN channels : channels'[i].payload = tok
       /\ PushedToAll(tok)

C21_AsStated == [][C21_AsStated_Step]_vars

\* C21, amended: the same, but the join payloads are updated only when the
\* token is neither null nor empty (they keep the token they carried when the
\* provider resolves with null), and the message of a push goes out only on a
\* channel that has joined.
C21_Step ==
  (Resolves /\ last'.args[1] # accessTokenValue) =>
    LET tok == last'.args[1]
    IN /\ accessTokenValue' = tok
       /\ Len(channels') = Len(channels)
       /\ \A i \in DOMAIN channels :
            /\ channels'[i].payload = IF Truthy(tok) THEN tok ELSE channels[i].payload
            /\ last'.pushed[i].sent = channels[i].joined
       /\ PushedToAll(tok)

C21_TokenPropagates == [][C21_Step]_vars

\* The provider resolved with null while t1 was stored: both channels were
\* pushed null and the join payload still carries t1.
C21_Witness ==
  /\ last.op = "providerSettles" /\ last.args = <<NULL>> /\ accessTokenValue = NULL
  /\ Len(last.pushed) = 2 /\ channels[1].payload = "t1"

\* C22: in a propagation pass in which the push to a channel throws (the
\* channel has not joined), every channel, those after it included, has its
\* join payload updated and its push made, and the pushes to the channels that
\* have joined go out; a setAuth(token) call still runs to its finally block.
C22_Step ==
  (/\ Resolves /\ last'.args[1] # accessTokenValue
   /\ \E i \in DOMAIN channels : ~channels[i].joined) =>
    /\ DOMAIN last'.pushed = DOMAIN channels
    /\ \A j \in DOMAIN channels :
         /\ last'.pushed[j].id = channels[j].id
         /\ channels[j].joined => last'.pushed[j].sent
         /\ Truthy(last'.args[1]) => channels'[j].payload = last'.args[1]
    /\ last'.op = "setAuth" => authPromise' = NoPromise

C22_PushFailureIsIsolated == [][C22_Step]_vars

\* The push to the first channel threw and the push to the second went out.
C22_Witness ==
  /\ Len(last.pushed) = 2
  /\ ~last.pushed[1].sent /\ last.pushed[2].sent
  /\ channels[2].payload = accessTokenValue /\ accessTokenValue # NULL

\* The decimal numeral of a non-negative integer.
IsDecimal(str) ==
  /\ Len(str) >= 1
  /\ \A i \in DOMAIN str : \E d \in DOMAIN Digit : str[i] = Digit[d]
  /\ Len(str) > 1 => str[1] # "0"

\* C23: every ref that is handed out (the counter starts at 0) is the decimal
\* numeral of the counter, differs from the ref handed out before it, and is
\* "0", with the counter reset, exactly when adding one would leave the
\* counter unchanged.
C23_Step ==
  last'.hb # NoRef =>
    /\ last'.hb = toString(ref') /\ IsDecimal(last'.hb) /\ ref' >= 0
    /\ last'.hb # toString(ref)
    /\ IF PlusOne(ref) = ref THEN ref' = 0 /\ last'.hb = <<"0">>
                             ELSE ref' = ref + 1

C23_RefsWrapToZero == [][C23_Step]_vars

\* The counter overflowed and was reset: the ref handed out is "0".
C23_Witness == last.op = "sendHeartbeat" /\ last.hb = <<"0">> /\ ref = 0

\* The client a heartbeat tick leaves behind when the callback returns.
Returned == Observed(sendHeartbeat([Task("sendHeartbeat") EXCEPT !.last.prev = hbPrev],
                                   FALSE))

\* C24: a tick whose heartbeat callback throws reports the same status and
\* leaves the same pending ref, pushed heartbeat, forced close, fallback
\* timer, reconnection trigger and auth refresh as the tick whose callback
\* returns, and sendHeartbeat() does not reject.
C24_Step ==
  last'.op = "sendHeartbeat" /\ last'.threw =>
    /\ ~last'.rejected
    /\ Client' = [Returned EXCEPT !.last.threw = TRUE]

C24_CallbackThrowIsCaught == [][C24_Step]_vars

\* The callback threw in the timeout branch, and the transport was closed.
C24_Witness ==
  /\ last.op = "sendHeartbeat" /\ last.threw
  /\ last.status = "timeout" /\ last.close /\ fallbackTimers > 0

\* C25: a tick that sends has stored and pushed its ref and reported 'sent'
\* while the token provider it started is still unsettled, and a tick taken
\* while a provider call is unsettled, or after one failed, runs the branch
\* its own conditions select.
C25_Step ==
  last'.op = "sendHeartbeat" =>
    /\ last'.status = IF ~isConnected(Client) THEN "disconnected"
                      ELSE IF pendingHeartbeatRef # NoRef THEN "timeout"
                      ELSE "sent"
    /\ last'.status = "timeout" => last'.close /\ pendingHeartbeatRef' = NoRef
    /\ last'.status = "sent" =>
         /\ last'.hb # NoRef /\ pendingHeartbeatRef' = last'.hb
         /\ last'.setAuth
         /\ accessToken =>
              /\ Cardinality(ops') = Cardinality(ops) + 1
              /\ accessTokenValue' = accessTokenValue

C25_AuthRefreshDoesNotBlock == [][C25_Step]_vars

\* A tick ran the timeout branch while the provider call of the tick that
\* sent is still unsettled.
C25_Witness ==
  /\ last.op = "sendHeartbeat" /\ last.status = "timeout" /\ last.prev = "sent"
  /\ ops # {}

\* C27: a push or a send on a channel that has not joined throws to its caller
\* at the call, push() the formatted error, and hands nothing to the transport.
C27_Step ==
  (last'.op \in {"push", "send"} /\ ~channels[last'.args[1]].joined) =>
    /\ last'.error # <<>>
    /\ last'.sent = <<>>
    /\ last'.op = "push" =>
         last'.error = <<"tried to push '", last'.args[2], "' to '",
                         channels[last'.args[1]].topic,
                         "' before joining. Use channel.subscribe() before pushing events">>

C27_PushBeforeJoinThrows == [][C27_Step]_vars

\* push() on a registered channel that has not joined threw, while another
\* channel has joined.
C27_Witness ==
  /\ last.op = "push" /\ last.error # <<>> /\ last.sent = <<>>
  /\ \E i \in DOMAIN channels : channels[i].joined

\* C26 as stated: without an API key the constructor throws the configuration
\* error and creates no transport; with one it succeeds and stores the key.
C26_AsStated ==
  built.done =>
    IF built.options.apikey \in {NULL, ""}
      THEN built.error = ApiKeyRequired /\ ~built.socket
      ELSE built.error = "none" /\ built.socket /\ built.apiKey = built.options.apikey

\* C26: without an API key the constructor throws the configuration error and
\* creates no transport; with one it stores the key, and it succeeds unless a
\* worker is asked for where there are no Web Workers: then it throws and
\* creates no transport either. A client once returned keeps its key.
C26_ApiKeyRequired ==
  built.done =>
    IF built.options.apikey \in {NULL, ""}
      THEN built.error = ApiKeyRequired /\ ~built.socket
      ELSE /\ built.apiKey = built.options.apikey
           /\ IF built.options.worker /\ ~built.options.workerSupported
                THEN built.error = WorkerUnsupported /\ ~built.socket
                ELSE built.error = "none" /\ built.socket

\* A client constructed with a key and a worker is in use.
C26_Witness ==
  /\ built.done /\ built.socket /\ built.apiKey = "k1" /\ built.options.worker
  /\ channels # <<>>

\* What the relay triggers on the channel for a callback it received.
Relayed(e) ==
  [type |-> "presence",
   payload |->
     CASE e.fn = "onJoin" -> [event |-> "join", key |-> e.args[1],
                              currentPresences |-> e.args[2],
                              newPresences |-> e.args[3]]
       [] e.fn = "onLeave" -> [event |-> "leave", key |-> e.args[1],
                               currentPresences |-> e.args[2],
                               leftPresences |-> e.args[3]]
       [] e.fn = "onSync" -> [event |-> "sync"]]

\* C28: the events triggered on the channel are, one for one and in the same
\* order, the callbacks received from the feed: a 'presence' event with
\* {event, key, currentPresences, newPresences} for a join, with
\* {event, key, currentPresences, leftPresences} for a leave, with {event} for
\* a sync.
C28_RelaysInOrder ==
  /\ Len(presence.triggered) = Len(presence.received)
  /\ \A i \in DOMAIN presence.received :
       presence.triggered[i] = Relayed(presence.received[i])

\* A join, a leave and a sync were relayed, in this order.
C28_Witness ==
  /\ Len(presence.received) = 3
  /\ presence.received[1].fn = "onJoin"
  /\ presence.received[2].fn = "onLeave"
  /\ presence.received[3].fn = "onSync"
  /\ presence.triggered[3].payload = [event |-> "sync"]

\* C29: relaying a callback leaves the state of the feed as it is, and state()
\* returns the state the feed has at the call.
C29_Step ==
  /\ presence'.received # presence.received => presence'.state = presence.state
  /\ presence'.op = "state" =>
       presence'.returned = <<presence.state>> /\ presence'.state = presence.state

C29_RelayStoresNothing == [][C29_Step]_vars

\* state() returned what the feed took in after a join was relayed.
C29_Witness ==
  /\ presence.op = "state" /\ presence.returned = <<presence.state>>
  /\ presence.received # <<>> /\ presence.received[1].fn = "onJoin"
  /\ presence.state[presence.received[1].args[1]] # presence.received[1].args[3]

\* C31: channel(topic, options) for a topic that is registered returns the
\* session registered and leaves the registry, every session in it and the
\* count of sessions constructed as they are, whatever the options.
C31_Step ==
  (last'.op = "channel" /\ \E i \in DOMAIN channels : channels[i].topic = last'.topic) =>
    /\ channels' = channels
    /\ nextId' = nextId
    /\ \E i \in DOMAIN channels :
         channels[i].topic = last'.topic /\ channels[i].id = last'.ret

C31_SecondCallIgnoresOptions == [][C31_Step]_vars

\* channel() was called for a registered topic with options other than the
\* ones its session was constructed with.
C31_Witness ==
  /\ last.op = "channel"
  /\ \E i \in DOMAIN channels :
       /\ channels[i].topic = last.topic /\ channels[i].id = last.ret
       /\ channels[i].id < nextId - 1
       /\ channels[i].params # last.args[2]

\* C32: isConnected, isConnecting, isDisconnecting, connectionState and
\* endpointURL answer from the state of the transport and change neither the
\* client (registry, stored token, pending heartbeat ref, ref counter, auth
\* handle, timers) nor the transport.
C32_Step ==
  last'.op \in {"isConnected", "isConnecting", "isDisconnecting", "connectionState",
                "endpointURL"} =>
    /\ conn' = conn /\ channels' = channels /\ accessTokenValue' = accessTokenValue
    /\ pendingHeartbeatRef' = pendingHeartbeatRef /\ ref' = ref
    /\ authPromise' = authPromise /\ ops' = ops /\ waiters' = waiters
    /\ wasManualDisconnect' = wasManualDisconnect /\ nextId' = nextId
    /\ reconnectTimer' = reconnectTimer /\ settleTimers' = settleTimers
    /\ fallbackTimers' = fallbackTimers /\ removing' = removing
    /\ ~last'.tconnect /\ ~last'.close /\ ~last'.setAuth /\ last'.hb = NoRef
    /\ last'.op = "isConnected" => last'.answer = <<conn = "open">>
    /\ last'.op = "isConnecting" => last'.answer = <<conn = "connecting">>
    /\ last'.op = "isDisconnecting" => last'.answer = <<conn = "closing">>
    /\ last'.op = "connectionState" => last'.answer = <<conn>>

C32_QueriesOnlyRead == [][C32_Step]_vars

\* The state of a closing transport was asked for while a heartbeat and an
\* auth operation are pending and a session is registered.
C32_Witness ==
  /\ last.op = "connectionState" /\ last.answer = <<"closing">>
  /\ pendingHeartbeatRef # NoRef /\ ops # {} /\ channels # <<>>

\* C33: the reconnection callback, resumed after its settle delay or after the
\* auth promise it awaited, calls connect() only on a transport that is not
\* connected, and the fallback of a heartbeat timeout triggers the scheduler
\* only then; on a connected transport both leave the connection as it is.
C33_Step ==
  last'.op \in {"reconnectSettle", "providerSettles", "heartbeatFallback"} =>
    /\ last'.connectBy = "scheduler" => conn # "open"
    /\ last'.sched => conn # "open"
    /\ ~last'.close /\ ~last'.disconnect
    /\ conn = "open" => conn' = "open" /\ ~last'.tconnect
                         /\ reconnectTimer' = reconnectTimer

C33_StaleContinuationIsNoOp == [][C33_Step]_vars

\* The settle delay elapsed on a transport that had opened in the meantime,
\* with no auth promise to await: the callback did nothing.
C33_Witness ==
  /\ last.op = "reconnectSettle" /\ conn = "open" /\ last.connectBy = "none"
  /\ waiters = {} /\ authPromise = NoPromise

\* C34: a setAuth call whose resolved token is the stored one leaves the stored
\* token and every channel as they are and pushes nothing; so the second of
\* two setAuth(t) calls, one right after the other, makes no propagation pass.
C34_Step ==
  /\ (Resolves /\ last'.args[1] = accessTokenValue) =>
       /\ accessTokenValue' = accessTokenValue
       /\ channels' = channels
       /\ last'.pushed = <<>>
  /\ (/\ last.op = "setAuth" /\ last'.op = "setAuth"
      /\ last'.args = last.args /\ Truthy(last.args[1])) =>
       /\ accessTokenValue = last.args[1]
       /\ accessTokenValue' = accessTokenValue
       /\ channels' = channels
       /\ last'.pushed = <<>>

C34_SameTokenChangesNothing == [][C34_Step]_vars

\* The second setAuth('t1') in a row: the channels carry t1 from the pass of
\* the first and nothing was pushed.
C34_Witness ==
  /\ last.op = "setAuth" /\ last.args = <<"t1">> /\ last.pushed = <<>>
  /\ accessTokenValue = "t1" /\ Len(channels) = 2
  /\ \A i \in DOMAIN channels : channels[i].payload = "t1"

\* C35: without a reconnectAfterMs of the application the delay of attempt n
\* is 1000, 2000, 5000, 10000 ms for n = 1, 2, 3, 4 and 10000 ms for every
\* n >= 5; with one, it is what that function returns, for every attempt.
C35_ReconnectDelays ==
  built.tries >= 1 =>
    IF built.options.reconnectAfterMs = NULL
      THEN built.delay = CASE built.tries = 1 -> 1000
                           [] built.tries = 2 -> 2000
                           [] built.tries = 3 -> 5000
                           [] built.tries = 4 -> 10000
                           [] built.tries >= 5 -> 10000
      ELSE built.delay = 50 * built.tries

\* The default delay of an attempt past the table.
C35_Witness ==
  /\ built.options.reconnectAfterMs = NULL /\ built.tries = MaxTries
  /\ built.delay = 10000

\* C36: an auth operation that settles after a call started later has made
\* its propagation pass neither replaces the stored token nor pushes to the
\* channels.
C36_Step ==
  (last'.op = "providerSettles" /\ last'.superseded) =>
    /\ accessTokenValue' = accessTokenValue
    /\ last'.pushed = <<>>

C36_LatestCallWins == [][C36_Step]_vars

\* C37: the first heartbeat tick on a connection opened after one that ended
\* with a heartbeat pending reports 'sent' and does not close the transport.
C37_Step ==
  (last'.op = "sendHeartbeat" /\ hbPrev = "stale" /\ conn = "open") =>
    last'.status = "sent" /\ ~last'.close

C37_FreshConnectionStartsClean == [][C37_Step]_vars

\* C38: every session that removeAllChannels() drops from the registry when
\* its unsubscribes have settled is one that it unsubscribed.
C38_Step ==
  (last'.op = "removeAllChannelsSettle" /\ ~removing'.allActive) =>
    \A i \in DOMAIN channels :
      (\A j \in DOMAIN channels' : channels'[j].id # channels[i].id) =>
        \E j \in DOMAIN removing.all : removing.all[j].id = channels[i].id

C38_DropsOnlyUnsubscribed == [][C38_Step]_vars

\* C39: when the token provider fails, the stored token and the channels are
\* unchanged, nothing is pushed, the in-flight auth handle is cleared, and the
\* failure goes to the caller of setAuth() or to the log of connect() and
\* sendHeartbeat(), and nowhere else.
C39_Step ==
  last'.failed # {} =>
    /\ accessTokenValue' = accessTokenValue
    /\ channels' = channels
    /\ last'.pushed = <<>>
    /\ authPromise' = NoPromise
    /\ last'.failed \in {{"caller"}, {"log"}}

C39_ProviderFailureIsContained == [][C39_Step]_vars

\* C40: every timeout report follows a sent report with no timeout between
\* them, every heartbeat pushed after another bears a ref other than that
\* one's, and a pending ref is always the ref of the last heartbeat pushed.
C40_Step ==
  /\ (Tick /\ last'.status = "timeout") => hbPrev = "sent"
  /\ (last'.hb # NoRef /\ hbPrev # "none") => last'.hb # toString(ref)
  /\ pendingHeartbeatRef' # NoRef => pendingHeartbeatRef' = toString(ref')

C40_HeartbeatSequence == [][C40_Step]_vars

\* A heartbeat timed out and the next one was sent with a new ref, which is
\* pending.
C40_Witness ==
  /\ last.op = "sendHeartbeat" /\ last.prev = "timeout" /\ last.status = "sent"
  /\ last.hb = <<"2">> /\ pendingHeartbeatRef = <<"2">> /\ ref = 2

\* The sessions other than the one of the topic, in their order.
Others(chs, topic) == SelectSeq(chs, LAMBDA ch : ch.topic # topic)

\* C30: the registry lists its sessions in the order they were created:
\* channel() leaves it alone or appends the new session, and a removal takes
\* out the sessions of one topic and leaves the others in their order.
C30_Step ==
  /\ last'.op = "channel" =>
        \/ channels' = channels
        \/ /\ Len(channels') = Len(channels) + 1
           /\ SubSeq(channels', 1, Len(channels)) = channels
           /\ channels'[Len(channels')].id = last'.ret
  /\ last'.op = "_remove" =>
        \E i \in DOMAIN channels : channels' = Others(channels, channels[i].topic)

C30_CreationOrder ==
  /\ [](\A i, j \in DOMAIN channels : i < j => channels[i].id < channels[j].id)
  /\ [][C30_Step]_vars

\* The middle one of three sessions was removed and created again: it is now
\* the last.
C30_Witness ==
  /\ Len(channels) = 3 /\ last.op = "channel"
  /\ channels[1].id = 1 /\ channels[2].id = 3 /\ channels[3].id = 4

====
